---- MODULE Spec2Model ----
(***************************************************************************)
(* A model of the request handlers of the Django workshops:                *)
(*   Workshop1  hello/views.py        hello_view, personal_greeting        *)
(*   Workshop2  feedback/views.py     submit_feedback, feedback_list       *)
(*   Workshop3  library/models.py     Publisher, Author, Book              *)
(*   Workshop3  todo_list/views.py    task_list, add_task                  *)
(*   Workshop4  image_share/views.py  gallery, upload_photo                *)
(*   Workshop5  user/views.py, user/serializers.py                         *)
(* Every workshop is its own Django project (its own process and its own   *)
(* database), so every workshop has its own specification over its own     *)
(* variables.  `request` and `response` hold the last request handled and  *)
(* the answer it got.  The server handles one request at a time (the       *)
(* synchronous request/response model), so one action is one request.      *)
(***************************************************************************)
EXTENDS Integers, Sequences, FiniteSets, TLC

VARIABLES
    request,        \* the last request handled
    response,       \* the response to it
    users,          \* Workshop5: the user table, primary key -> row
    feedbacks,      \* Workshop2: the module-level list feedback/views.py:4
    todos,          \* Workshop3 todo_list: the Todo table, in insertion order
    photos,         \* Workshop4: the Photo table, in insertion order
    clock,          \* Workshop4: the wall clock that stamps uploaded_at
    publishers,     \* Workshop3 library: primary keys of the Publisher rows
    authors,        \* Workshop3 library: primary keys of the Author rows
    books           \* Workshop3 library: Book rows, primary key -> row

vars == <<request, response, users, feedbacks, todos, photos, clock,
          publishers, authors, books>>

(***************************************************************************)
(* Requests and principals                                                 *)
(***************************************************************************)
AnonymousUser == "AnonymousUser"

Users == {"u1", "u2"}

Principals == Users \cup {AnonymousUser}

NoRequest == [view |-> "none"]

NoResponse == [status |-> 0, kind |-> "none"]

\* d restricted to the keys in S
Restrict(d, S) == [k \in S |-> d[k]]

\* Every dict whose keys are among those of Values, each key k with a value of Values[k]
Dicts(Values) ==
    UNION { {d \in [S -> UNION {Values[k] : k \in DOMAIN Values}] :
                \A k \in S : d[k] \in Values[k]} : S \in SUBSET DOMAIN Values }

(***************************************************************************)
(* Workshop5: user/views.py and user/serializers.py                        *)
(***************************************************************************)
UserFields == {"username", "email", "avatar"}

WellFormedUsernames == {"alice", "bob", "carol"}

WellFormedEmails == {"a@x.org"}

ImageFiles == {"cat.png"}

UserFieldInputs(f) ==
    CASE f = "username" -> WellFormedUsernames \cup {"bad name"}
      [] f = "email"    -> WellFormedEmails \cup {"not-an-email"}
      [] f = "avatar"   -> ImageFiles \cup {"notes.txt"}

UserPayloads == Dicts([f \in UserFields |-> UserFieldInputs(f)])

RawPasswords == {"pw1", "pw2"}

PasswordFieldInputs(f) == RawPasswords \cup {""}

PasswordPayloads == Dicts([f \in {"password"} |-> PasswordFieldInputs(f)])

Salts == {"s1", "s2"}

\* django.contrib.auth.hashers.make_password: algorithm$salt$digest
make_password(raw, salt) == "pbkdf2_sha256$" \o salt \o "$" \o "H(" \o salt \o "+" \o raw \o ")"

\* django.contrib.auth.hashers.check_password
check_password(raw, encoded) == \E s \in Salts : encoded = make_password(raw, s)

\* Python truthiness of an uploaded file: it has a name
Truthy(v) == v # ""

\* avatar = models.ImageField(upload_to='uploads/'): the reference save()
\* stores for an uploaded file
ImageField_upload_to(file) == "uploads/" \o file

\* permission_classes = [IsAuthenticated]
IsAuthenticated(user) == user # AnonymousUser

\* The errors of UpdateUserSerializer(instance, data, partial=True).is_valid():
\* field -> error code, over the fields of Meta.fields present in data.
UpdateUserSerializer_errors(pk, data) ==
    LET bad(f) ==
            CASE f = "username" ->
                    IF data[f] \notin WellFormedUsernames THEN "invalid"
                    ELSE IF \E o \in Users \ {pk} : users[o].username = data[f]
                         THEN "unique" ELSE "ok"
              [] f = "email"  -> IF data[f] \in WellFormedEmails THEN "ok" ELSE "invalid"
              [] f = "avatar" -> IF data[f] \in ImageFiles THEN "ok" ELSE "invalid_image"
        S == {f \in DOMAIN data \cap UserFields : bad(f) # "ok"}
    IN [f \in S |-> bad(f)]

\* serializer.validated_data under partial=True: the fields present in data
UpdateUserSerializer_validated_data(data) == Restrict(data, DOMAIN data \cap UserFields)

\* UpdateUserSerializer.update: the instance after the call, whether save()
\* was reached, and the exception that left the method, if any.
UpdateUserSerializer_update_clear_avatar(instance, validated_data) ==
    IF "username" \notin DOMAIN validated_data
    THEN [exc |-> "KeyError", saved |-> FALSE, instance |-> instance]
    ELSE LET i1 == [instance EXCEPT !.username = validated_data["username"]] IN
         IF "email" \notin DOMAIN validated_data
         THEN [exc |-> "KeyError", saved |-> FALSE, instance |-> i1]
         ELSE LET i2 == [i1 EXCEPT !.email = validated_data["email"]]
                  i3 == IF "avatar" \in DOMAIN validated_data
                        THEN [i2 EXCEPT !.avatar = ImageField_upload_to(validated_data["avatar"])]
                        ELSE [i2 EXCEPT !.avatar = ""]
              IN [exc |-> "none", saved |-> TRUE, instance |-> i3]

UpdateUserSerializer_update(instance, validated_data) ==
    IF "username" \notin DOMAIN validated_data                   \* line 21: KeyError
    THEN [exc |-> "KeyError", saved |-> FALSE, instance |-> instance]
    ELSE LET i1 == [instance EXCEPT !.username = validated_data["username"]] IN
         IF "email" \notin DOMAIN validated_data                 \* line 22: KeyError
         THEN [exc |-> "KeyError", saved |-> FALSE, instance |-> i1]
         ELSE LET i2 == [i1 EXCEPT !.email = validated_data["email"]]
                  \* lines 23-27: a KeyError of validated_data['avatar'] is swallowed
                  i3 == IF "avatar" \in DOMAIN validated_data
                           /\ Truthy(validated_data["avatar"])
                        THEN [i2 EXCEPT !.avatar = ImageField_upload_to(validated_data["avatar"])]
                        ELSE i2
              IN [exc |-> "none", saved |-> TRUE, instance |-> i3]

\* serializer.data of UpdateUserSerializer: the fields of Meta.fields
UpdateUserSerializer_data(instance) == Restrict(instance, UserFields)

\* The errors of UpdatePasswordSerializer(instance, data).is_valid()
UpdatePasswordSerializer_errors(data) ==
    IF "password" \notin DOMAIN data THEN [f \in {"password"} |-> "required"]
    ELSE IF data["password"] = "" THEN [f \in {"password"} |-> "blank"]
    ELSE [f \in {} |-> "ok"]

\* UpdatePasswordSerializer.update: set_password, then save
UpdatePasswordSerializer_update_plaintext(instance, validated_data, salt) ==
    [instance EXCEPT !.password = validated_data["password"]]

UpdatePasswordSerializer_update(instance, validated_data, salt) ==
    [instance EXCEPT !.password = make_password(validated_data["password"], salt)]

\* The response of rest_framework to a request its permission check refuses
NotAuthenticated == [status |-> 403, kind |-> "rejected"]

\* The framework's answer to an exception that leaves the handler
ServerError(exc) == [status |-> 500, kind |-> "exception", exc |-> exc]

\* UserProfileView.get
UserProfileView_get(user) ==
    /\ request' = [view |-> "user-profile", method |-> "GET", user |-> user]
    /\ response' =
          IF ~IsAuthenticated(user) THEN NotAuthenticated
          ELSE [status |-> 200, kind |-> "data",
                data |-> UpdateUserSerializer_data(users[user])]
    /\ UNCHANGED <<users, feedbacks, todos, photos, clock, publishers, authors, books>>

\* UpdateUserView.patch
UpdateUserView_patch_no_validation(user, data) ==
    /\ request' = [view |-> "user-update", method |-> "PATCH", user |-> user, data |-> data]
    /\ IF ~IsAuthenticated(user)
       THEN response' = NotAuthenticated /\ UNCHANGED users
       ELSE LET r == UpdateUserSerializer_update(
                        users[user], UpdateUserSerializer_validated_data(data))
            IN IF r.saved
               THEN /\ users' = [users EXCEPT ![user] = r.instance]
                    /\ response' = [status |-> 200, kind |-> "data",
                                    data |-> UpdateUserSerializer_data(r.instance)]
               ELSE /\ users' = users
                    /\ response' = ServerError(r.exc)
    /\ UNCHANGED <<feedbacks, todos, photos, clock, publishers, authors, books>>

UpdateUserView_patch(user, data) ==
    /\ request' = [view |-> "user-update", method |-> "PATCH", user |-> user, data |-> data]
    /\ IF ~IsAuthenticated(user)
       THEN response' = NotAuthenticated /\ UNCHANGED users
       ELSE LET errors == UpdateUserSerializer_errors(user, data) IN
            IF DOMAIN errors = {}                                   \* is_valid()
            THEN LET r == UpdateUserSerializer_update(
                             users[user], UpdateUserSerializer_validated_data(data))
                 IN IF r.saved
                    THEN /\ users' = [users EXCEPT ![user] = r.instance]
                         /\ response' = [status |-> 200, kind |-> "data",
                                         data |-> UpdateUserSerializer_data(r.instance)]
                    ELSE /\ users' = users
                         /\ response' = ServerError(r.exc)
            ELSE /\ users' = users
                 /\ response' = [status |-> 400, kind |-> "errors", errors |-> errors]
    /\ UNCHANGED <<feedbacks, todos, photos, clock, publishers, authors, books>>

\* UpdatePasswordView.patch
UpdatePasswordView_patch(user, data, salt) ==
    /\ request' = [view |-> "user-update-password", method |-> "PATCH",
                   user |-> user, data |-> data]
    /\ IF ~IsAuthenticated(user)
       THEN response' = NotAuthenticated /\ UNCHANGED users
       ELSE LET errors == UpdatePasswordSerializer_errors(data) IN
            IF DOMAIN errors = {}                                   \* is_valid()
            THEN /\ users' = [users EXCEPT ![user] =
                                 UpdatePasswordSerializer_update(users[user], data, salt)]
                 /\ response' = [status |-> 200, kind |-> "message",
                                 message |-> "Password updated successfully"]
            ELSE /\ users' = users
                 /\ response' = [status |-> 400, kind |-> "errors", errors |-> errors]
    /\ UNCHANGED <<feedbacks, todos, photos, clock, publishers, authors, books>>

InitUsers ==
    [u \in Users |->
        [username |-> IF u = "u1" THEN "alice" ELSE "bob",
         email    |-> "",
         avatar   |-> "",
         password |-> make_password("old-" \o u, "s1")]]

(***************************************************************************)
(* Workshop1: hello/urls.py and hello/views.py                             *)
(***************************************************************************)
MaxParams == 2

Names == {"World", "Alice", "Bob"}

\* A path is the sequence of its segments: <<>> is '', <<n>> is 'n/'
Paths == {<<>>} \cup {<<n>> : n \in Names} \cup {<<n, m>> : n \in Names, m \in {"x"}}

QueryKeys == {"greet", "lang"}

QueryValues == {"Hi", "Hey", ""}

\* A query string is the sequence of its key=value pairs
QueryStrings ==
    UNION {[1..n -> QueryKeys \X QueryValues] : n \in 0..MaxParams}

\* The values of key in query string q, in order
QueryDict_getlist(q, key) ==
    LET F[i \in 0..Len(q)] ==
            IF i = 0 THEN <<>>
            ELSE IF q[i][1] = key THEN Append(F[i - 1], q[i][2]) ELSE F[i - 1]
    IN F[Len(q)]

\* request.GET.get(key, default): the last value of key, default if it has none
QueryDict_get(q, key, default) ==
    LET l == QueryDict_getlist(q, key)
    IN IF l = <<>> THEN default ELSE l[Len(l)]

\* hello_view
hello_view == [status |-> 200, kind |-> "content", content |-> "Hello, World!"]

\* personal_greeting
personal_greeting_fixed(GET, name) ==
    [status |-> 200, kind |-> "content", content |-> "Hello" \o ", " \o name \o "!"]

personal_greeting(GET, name) ==
    LET greeting == QueryDict_get(GET, "greet", "Hello")
    IN [status |-> 200, kind |-> "content", content |-> greeting \o ", " \o name \o "!"]

\* urlpatterns: '' is hello_view, '<str:name>/' is personal_greeting
urlpatterns(path, GET) ==
    IF path = <<>> THEN hello_view
    ELSE IF Len(path) = 1 THEN personal_greeting(GET, path[1])
    ELSE [status |-> 404, kind |-> "not_found"]

\* One GET request to the hello project
HelloRequest(path, GET) ==
    /\ request' = [view |-> "hello", method |-> "GET", path |-> path, GET |-> GET]
    /\ response' = urlpatterns(path, GET)
    /\ UNCHANGED <<users, feedbacks, todos, photos, clock, publishers, authors, books>>

(***************************************************************************)
(* Workshop2: feedback/views.py                                            *)
(***************************************************************************)
MaxFeedbacks == 3

Methods == {"GET", "POST", "PUT"}

FeedbackFields == {"name", "message"}

FeedbackFieldInputs(f) ==
    CASE f = "name"    -> {"Ann", ""}
      [] f = "message" -> {"good", "bad"}
      [] f = "csrfmiddlewaretoken" -> {"tok"}

FeedbackPosts ==
    Dicts([f \in FeedbackFields \cup {"csrfmiddlewaretoken"} |-> FeedbackFieldInputs(f)])

\* FeedbackForm(request.POST).is_valid(): every field of the form is there and not blank
FeedbackForm_is_valid(data) ==
    \A f \in FeedbackFields : f \in DOMAIN data /\ data[f] # ""

\* form.cleaned_data: the fields of the form, and nothing else of the POST
FeedbackForm_cleaned_data(data) == Restrict(data, FeedbackFields \cap DOMAIN data)

\* form.errors: the fields that are missing or blank
FeedbackForm_errors(data) ==
    {f \in FeedbackFields : f \notin DOMAIN data \/ data[f] = ""}

Redirect(to) == [status |-> 302, kind |-> "redirect", location |-> to]

Render(template, context) ==
    [status |-> 200, kind |-> "render", template |-> template, context |-> context]

\* submit_feedback
submit_feedback_no_validation(method, data) ==
    /\ request' = [view |-> "submit_feedback", method |-> method, POST |-> data]
    /\ IF method = "POST"
       THEN /\ Len(feedbacks) < MaxFeedbacks
            /\ feedbacks' = Append(feedbacks, FeedbackForm_cleaned_data(data))
            /\ response' = Redirect("feedbacks")
       ELSE /\ feedbacks' = feedbacks
            /\ response' = Render("feedback/form.html", [form |-> "unbound", errors |-> {}])
    /\ UNCHANGED <<users, todos, photos, clock, publishers, authors, books>>

submit_feedback(method, data) ==
    /\ request' = [view |-> "submit_feedback", method |-> method, POST |-> data]
    /\ IF method = "POST"
       THEN IF FeedbackForm_is_valid(data)
            THEN /\ Len(feedbacks) < MaxFeedbacks
                 /\ feedbacks' = Append(feedbacks, FeedbackForm_cleaned_data(data))
                 /\ response' = Redirect("feedbacks")
            ELSE /\ feedbacks' = feedbacks
                 /\ response' = Render("feedback/form.html",
                                       [form |-> "bound", errors |-> FeedbackForm_errors(data)])
       ELSE /\ feedbacks' = feedbacks
            /\ response' = Render("feedback/form.html", [form |-> "unbound", errors |-> {}])
    /\ UNCHANGED <<users, todos, photos, clock, publishers, authors, books>>

\* feedback_list
feedback_list ==
    /\ request' = [view |-> "feedbacks", method |-> "GET"]
    /\ response' = Render("feedback/feedbacks.html", [feedback_list |-> feedbacks])
    /\ UNCHANGED <<users, feedbacks, todos, photos, clock, publishers, authors, books>>

(***************************************************************************)
(* Workshop3: todo_list/views.py                                           *)
(***************************************************************************)
MaxTodos == 2

TodoFieldInputs(f) ==
    CASE f = "title" -> {"milk", "rent", ""}
      [] f = "user"  -> Users

TodoPosts == Dicts([f \in {"title", "user"} |-> TodoFieldInputs(f)])

\* TodoForm(request.POST).is_valid(): the title is there and not blank
TodoForm_is_valid(data) == "title" \in DOMAIN data /\ data["title"] # ""

\* form.save(commit=False): the unsaved Todo built from the form's data; a
\* user named in the POST is the most the form can take from it.
TodoForm_save(data) ==
    [title |-> data["title"],
     user  |-> IF "user" \in DOMAIN data THEN data["user"] ELSE "None"]

\* @login_required
login_required_off(user) == TRUE

login_required(user) == user # AnonymousUser

\* The redirect of login_required to settings.LOGIN_URL
RedirectToLogin == [status |-> 302, kind |-> "rejected", location |-> "login"]

\* Todo.objects.filter(user=user), in primary-key order
Todo_filter(user) == SelectSeq(todos, LAMBDA t : t.user = user)

\* task_list
task_list(user) ==
    /\ request' = [view |-> "task_list", method |-> "GET", user |-> user]
    /\ response' =
          IF ~login_required(user) THEN RedirectToLogin
          ELSE Render("todo_list/tasks.html", [tasks |-> Todo_filter(user)])
    /\ UNCHANGED <<users, feedbacks, todos, photos, clock, publishers, authors, books>>

\* add_task, lines 16-18: the task that is saved
add_task_new_task_from_form(user, data) == TodoForm_save(data)

add_task_new_task(user, data) == [TodoForm_save(data) EXCEPT !.user = user]

\* add_task
add_task(user, method, data) ==
    /\ request' = [view |-> "add_task", method |-> method, user |-> user, POST |-> data]
    /\ IF ~login_required(user)
       THEN todos' = todos /\ response' = RedirectToLogin
       ELSE IF method = "POST"
       THEN IF TodoForm_is_valid(data)
            THEN /\ Len(todos) < MaxTodos
                 /\ todos' = Append(todos, add_task_new_task(user, data))
                 /\ response' = Redirect("task_list")
            ELSE /\ todos' = todos
                 /\ response' = Render("todo_list/add_task.html", [form |-> "bound"])
       ELSE /\ todos' = todos
            /\ response' = Render("todo_list/add_task.html", [form |-> "unbound"])
    /\ UNCHANGED <<users, feedbacks, photos, clock, publishers, authors, books>>

(***************************************************************************)
(* Workshop3: library/models.py, managed through library/admin.py          *)
(***************************************************************************)
MaxBooks == 2

PublisherIds == {1, 2}

AuthorIds == {1, 2}

BookIds == 1..MaxBooks

\* Publisher(...).save()
Publisher_create(pk) ==
    /\ pk \in PublisherIds \ publishers
    /\ publishers' = publishers \cup {pk}
    /\ request' = [view |-> "admin", op |-> "create_publisher", pk |-> pk]
    /\ response' = Redirect("changelist")
    /\ UNCHANGED <<users, feedbacks, todos, photos, clock, authors, books>>

\* Author(...).save()
Author_create(pk) ==
    /\ pk \in AuthorIds \ authors
    /\ authors' = authors \cup {pk}
    /\ request' = [view |-> "admin", op |-> "create_author", pk |-> pk]
    /\ response' = Redirect("changelist")
    /\ UNCHANGED <<users, feedbacks, todos, photos, clock, publishers, books>>

\* Book(publisher=p).save(); book.authors.set(as): the foreign key and the
\* many-to-many rows must refer to rows that exist.
Book_create(pk, p, as) ==
    /\ pk \in BookIds \ DOMAIN books
    /\ p \in publishers
    /\ as \subseteq authors
    /\ books' = [b \in DOMAIN books \cup {pk} |->
                    IF b = pk THEN [publisher |-> p, authors |-> as] ELSE books[b]]
    /\ request' = [view |-> "admin", op |-> "create_book", pk |-> pk]
    /\ response' = Redirect("changelist")
    /\ UNCHANGED <<users, feedbacks, todos, photos, clock, publishers, authors>>

\* The Book rows left when Publisher pk is deleted: on_delete=models.CASCADE
Book_on_delete_publisher_DO_NOTHING(pk) == books

Book_on_delete_publisher(pk) ==
    Restrict(books, {b \in DOMAIN books : books[b].publisher # pk})

\* publisher.delete()
Publisher_delete(pk) ==
    /\ pk \in publishers
    /\ publishers' = publishers \ {pk}
    /\ books' = Book_on_delete_publisher(pk)
    /\ request' = [view |-> "admin", op |-> "delete_publisher", pk |-> pk]
    /\ response' = Redirect("changelist")
    /\ UNCHANGED <<users, feedbacks, todos, photos, clock, authors>>

\* author.delete(): the rows of the many-to-many table go with the author
Author_delete(pk) ==
    /\ pk \in authors
    /\ authors' = authors \ {pk}
    /\ books' = [b \in DOMAIN books |-> [books[b] EXCEPT !.authors = @ \ {pk}]]
    /\ request' = [view |-> "admin", op |-> "delete_author", pk |-> pk]
    /\ response' = Redirect("changelist")
    /\ UNCHANGED <<users, feedbacks, todos, photos, clock, publishers>>

\* book.delete()
Book_delete(pk) ==
    /\ pk \in DOMAIN books
    /\ books' = Restrict(books, DOMAIN books \ {pk})
    /\ request' = [view |-> "admin", op |-> "delete_book", pk |-> pk]
    /\ response' = Redirect("changelist")
    /\ UNCHANGED <<users, feedbacks, todos, photos, clock, publishers, authors>>

(***************************************************************************)
(* Workshop4: image_share/views.py                                         *)
(***************************************************************************)
MaxPhotos == 3

MaxTick == 2

PhotoFiles == {"cat.png", "dog.png", "notes.txt"}

PhotoUploads == Dicts([f \in {"image"} |-> PhotoFiles])

\* PhotoForm(request.POST, request.FILES).is_valid(): an image file is there
PhotoForm_is_valid(files) ==
    "image" \in DOMAIN files /\ files["image"] \in {"cat.png", "dog.png"}

\* form.save(): the Photo row, stamped with the time of the upload
PhotoForm_save(files, now) == [image |-> files["image"], uploaded_at |-> now]

\* rows with row put after the last element that is not older than it
InsertNewestFirst(row, rows) ==
    LET older == {i \in 1..Len(rows) : rows[i].uploaded_at < row.uploaded_at}
        k == IF older = {} THEN Len(rows) + 1
             ELSE CHOOSE i \in older : \A j \in older : i <= j
    IN SubSeq(rows, 1, k - 1) \o <<row>> \o SubSeq(rows, k, Len(rows))

RECURSIVE order_by_desc(_)
\* QuerySet.order_by('-uploaded_at')
order_by_desc(rows) ==
    IF rows = <<>> THEN <<>>
    ELSE InsertNewestFirst(rows[Len(rows)], order_by_desc(SubSeq(rows, 1, Len(rows) - 1)))

\* gallery, line 7: Photo.objects.all().order_by('-uploaded_at')
gallery_photos_oldest_first == photos

gallery_photos == order_by_desc(photos)

\* gallery
gallery ==
    /\ request' = [view |-> "gallery", method |-> "GET"]
    /\ response' = Render("image_share/gallery.html", [photos |-> gallery_photos])
    /\ UNCHANGED <<users, feedbacks, todos, photos, clock, publishers, authors, books>>

\* upload_photo; tick is the time that passed since the last upload
upload_photo(method, files, tick) ==
    /\ request' = [view |-> "upload_photo", method |-> method, FILES |-> files]
    /\ IF method = "POST"
       THEN IF PhotoForm_is_valid(files)
            THEN /\ Len(photos) < MaxPhotos
                 /\ clock' = clock + tick
                 /\ photos' = Append(photos, PhotoForm_save(files, clock'))
                 /\ response' = Redirect("gallery")
            ELSE /\ UNCHANGED <<photos, clock>>
                 /\ response' = Render("image_share/upload.html", [form |-> "bound"])
       ELSE /\ UNCHANGED <<photos, clock>>
            /\ response' = Render("image_share/upload.html", [form |-> "unbound"])
    /\ UNCHANGED <<users, feedbacks, todos, publishers, authors, books>>

(***************************************************************************)
(* The specifications, one per project                                     *)
(***************************************************************************)
Init ==
    /\ request = NoRequest
    /\ response = NoResponse
    /\ users = InitUsers
    /\ feedbacks = <<>>
    /\ todos = <<>>
    /\ photos = <<>>
    /\ clock = 0
    /\ publishers = {}
    /\ authors = {}
    /\ books = <<>>

\* Workshop1
NextHello == \E path \in Paths, GET \in QueryStrings : HelloRequest(path, GET)

SpecHello == Init /\ [][NextHello]_vars

\* Workshop2
NextFeedback ==
    \/ \E m \in Methods, d \in FeedbackPosts : submit_feedback(m, d)
    \/ feedback_list

SpecFeedback == Init /\ [][NextFeedback]_vars

\* Workshop3, the to-do list
NextTodo ==
    \/ \E u \in Principals : task_list(u)
    \/ \E u \in Principals, m \in Methods, d \in TodoPosts : add_task(u, m, d)

SpecTodo == Init /\ [][NextTodo]_vars

\* Workshop3, the library
NextLibrary ==
    \/ \E pk \in PublisherIds : Publisher_create(pk)
    \/ \E pk \in AuthorIds : Author_create(pk)
    \/ \E pk \in BookIds, p \in PublisherIds, as \in SUBSET AuthorIds : Book_create(pk, p, as)
    \/ \E pk \in PublisherIds : Publisher_delete(pk)
    \/ \E pk \in AuthorIds : Author_delete(pk)
    \/ \E pk \in BookIds : Book_delete(pk)

SpecLibrary == Init /\ [][NextLibrary]_vars

\* Workshop4
NextGallery ==
    \/ gallery
    \/ \E m \in Methods, f \in PhotoUploads, tick \in 1..MaxTick : upload_photo(m, f, tick)

SpecGallery == Init /\ [][NextGallery]_vars

\* Workshop5, the profile endpoints
NextProfile ==
    \/ \E u \in Principals : UserProfileView_get(u)
    \/ \E u \in Principals, d \in UserPayloads : UpdateUserView_patch(u, d)

SpecProfile == Init /\ [][NextProfile]_vars

\* Workshop5, the password endpoint
NextPassword ==
    \E u \in Principals, d \in PasswordPayloads, s \in Salts :
        UpdatePasswordView_patch(u, d, s)

SpecPassword == Init /\ [][NextPassword]_vars

\* Workshop5, the two PATCH endpoints of user/urls.py together, for signed-in
\* users; the salt is fixed here, the choice of salt is SpecPassword's
NextUser ==
    \/ \E u \in Users, d \in UserPayloads : UpdateUserView_patch(u, d)
    \/ \E u \in Users, d \in PasswordPayloads : UpdatePasswordView_patch(u, d, "s2")

SpecUser == Init /\ [][NextUser]_vars

\* Workshop5 and the Workshop3 to-do list: every endpoint behind a login
\* check.  Anonymous requests carry every payload; signed-in requests carry
\* the payloads of SignedIn*, enough to fill both stores.
SignedInUserPayloads == {[username |-> "carol", email |-> "a@x.org", avatar |-> "cat.png"]}

SignedInPasswordPayloads == {[password |-> "pw1"]}

SignedInTodoPosts == {[title |-> "milk"]}

NextAuth ==
    \/ \E u \in Principals : UserProfileView_get(u)
    \/ \E u \in Principals :
          \E d \in IF u = AnonymousUser THEN UserPayloads ELSE SignedInUserPayloads :
              UpdateUserView_patch(u, d)
    \/ \E u \in Principals :
          \E d \in IF u = AnonymousUser THEN PasswordPayloads ELSE SignedInPasswordPayloads :
              UpdatePasswordView_patch(u, d, "s1")
    \/ \E u \in Principals : task_list(u)
    \/ \E u \in Principals, m \in Methods :
          \E d \in IF u = AnonymousUser THEN TodoPosts ELSE SignedInTodoPosts :
              add_task(u, m, d)

SpecAuth == Init /\ [][NextAuth]_vars

(***************************************************************************)
(* Claims                                                                  *)
(***************************************************************************)

\* The request just handled is an authenticated PATCH of the profile whose
\* payload passes validation in the state it arrived in.
ValidProfilePatch ==
    /\ request'.view = "user-update"
    /\ IsAuthenticated(request'.user)
    /\ DOMAIN UpdateUserSerializer_errors(request'.user, request'.data) = {}

\* C1: an authenticated, valid PATCH of the profile leaves every field of
\* {username, email, avatar} that the payload omits with the value it had
\* before the call.
C1_OmittedFieldsUnchanged ==
    [][ValidProfilePatch =>
          \A f \in UserFields \ DOMAIN request'.data :
              users'[request'.user][f] = users[request'.user][f]]_vars

\* C1 witness: a payload without avatar was saved (200) and the avatar stored
\* by an earlier call is still there.
C1_Witness ==
    /\ request.view = "user-update"
    /\ response.status = 200
    /\ "avatar" \notin DOMAIN request.data
    /\ users[request.user].avatar = "uploads/cat.png"
    /\ users[request.user].username = "carol"

\* C2 (the claim as stated): an authenticated, valid PATCH of the profile with
\* any non-empty subset of the fields answers 200 and stores every field of
\* the payload (of an avatar, the reference to the uploaded file).
C2_PresentFieldsPersisted ==
    [][(ValidProfilePatch /\ DOMAIN request'.data # {}) =>
          /\ response'.status = 200
          /\ \A f \in DOMAIN request'.data :
                users'[request'.user][f] =
                    IF f = "avatar" THEN ImageField_upload_to(request'.data[f])
                    ELSE request'.data[f]]_vars

\* The request just handled is an authenticated PATCH of the password whose
\* payload passes validation.
ValidPasswordPatch ==
    /\ request'.view = "user-update-password"
    /\ IsAuthenticated(request'.user)
    /\ DOMAIN UpdatePasswordSerializer_errors(request'.data) = {}

\* C3: no stored credential is ever a plaintext password, and every
\* successful password update answers 200 and replaces the stored credential,
\* whatever it was, by a hash of the submitted password, which differs from
\* the submitted plaintext.
C3_CredentialNeverPlaintext ==
    /\ [](\A u \in Users : users[u].password \notin PasswordFieldInputs("password"))
    /\ [][ValidPasswordPatch =>
            /\ response'.status = 200
            /\ users'[request'.user].password # request'.data["password"]
            /\ \E s \in Salts : users'[request'.user].password
                                   = make_password(request'.data["password"], s)]_vars

\* C3 witness: a password update succeeded and the stored credential is a
\* hash of the submitted password, no longer the credential of Init.
C3_Witness ==
    /\ request.view = "user-update-password"
    /\ response.status = 200
    /\ check_password(request.data["password"], users[request.user].password)
    /\ users[request.user].password # InitUsers[request.user].password

\* The request just handled is an authenticated PATCH of the profile or of
\* the password whose payload fails validation.
InvalidPatch ==
    /\ IsAuthenticated(request'.user)
    /\ \/ /\ request'.view = "user-update"
          /\ DOMAIN UpdateUserSerializer_errors(request'.user, request'.data) # {}
       \/ /\ request'.view = "user-update-password"
          /\ DOMAIN UpdatePasswordSerializer_errors(request'.data) # {}

\* C5: a profile or password PATCH that fails validation answers 400 with the
\* per-field error map and changes no stored username, email, avatar or
\* credential.
C5_InvalidPatchRejected ==
    [][InvalidPatch =>
          /\ response'.status = 400
          /\ response'.kind = "errors"
          /\ DOMAIN response'.errors # {}
          /\ DOMAIN response'.errors \subseteq DOMAIN request'.data \cup {"password"}
          /\ users' = users]_vars

\* C5 witness: a PATCH with a malformed email was answered 400 with an error
\* for email, and the email stored by an earlier call is still there.
C5_Witness ==
    /\ request.view = "user-update"
    /\ response.status = 400
    /\ response.kind = "errors"
    /\ "email" \in DOMAIN response.errors
    /\ users[request.user].email \in WellFormedEmails

\* C4: a POST of valid form data to submit_feedback appends exactly one
\* record to the feedback list (one longer, the earlier entries in place) and
\* redirects to the listing; an invalid POST and any other method leave the
\* list as it was and render the form again.
C4_FeedbackAppendsOne ==
    [][request'.view = "submit_feedback" =>
          IF request'.method = "POST" /\ FeedbackForm_is_valid(request'.POST)
          THEN /\ Len(feedbacks') = Len(feedbacks) + 1
               /\ SubSeq(feedbacks', 1, Len(feedbacks)) = feedbacks
               /\ \A f \in FeedbackFields :
                     feedbacks'[Len(feedbacks')][f] = request'.POST[f]
               /\ response'.kind = "redirect"
               /\ response'.location = "feedbacks"
          ELSE /\ feedbacks' = feedbacks
               /\ response'.kind = "render"
               /\ response'.template = "feedback/form.html"]_vars

\* C4 witness: a valid POST was redirected and its record is the last of a
\* list that holds an earlier, different record before it.
C4_Witness ==
    /\ request.view = "submit_feedback"
    /\ response.kind = "redirect"
    /\ Len(feedbacks) >= 2
    /\ feedbacks[Len(feedbacks)].message = request.POST["message"]
    /\ feedbacks[1] # feedbacks[Len(feedbacks)]

\* C6: an anonymous request to the profile, profile-update, password-update,
\* task_list or add_task endpoint gets the rejection of the login check, and
\* neither the user table nor the Todo table changes.
C6_AnonymousRejected ==
    [][(request'.view \in {"user-profile", "user-update", "user-update-password",
                           "task_list", "add_task"}
        /\ request'.user = AnonymousUser) =>
          /\ response'.kind = "rejected"
          /\ users' = users
          /\ todos' = todos]_vars

\* C6 witness: an anonymous, otherwise valid POST to add_task was rejected in
\* a state where both stores hold data written by signed-in users.
C6_Witness ==
    /\ request.view = "add_task"
    /\ request.user = AnonymousUser
    /\ request.method = "POST"
    /\ TodoForm_is_valid(request.POST)
    /\ response.kind = "rejected"
    /\ Len(todos) = 1
    /\ users # InitUsers

\* The index of the last greet parameter of query string q, 0 if it has none
LastGreet(q) ==
    IF \A i \in 1..Len(q) : q[i][1] # "greet" THEN 0
    ELSE CHOOSE i \in 1..Len(q) :
            q[i][1] = "greet" /\ \A j \in (i + 1)..Len(q) : q[j][1] # "greet"

\* C7: the root path answers "Hello, World!"; '<name>/' answers
\* "Hello, <name>!" when the query has no greet parameter and "<g>, <name>!"
\* when it has greet=<g> (the last one, when greet is given more than once).
C7_Greeting ==
    request.view = "hello" =>
        /\ request.path = <<>> => response.content = "Hello, World!"
        /\ Len(request.path) = 1 =>
              LET k == LastGreet(request.GET)
                  name == request.path[1]
              IN /\ k = 0 => response.content = "Hello, " \o name \o "!"
                 /\ k > 0 => response.content = request.GET[k][2] \o ", " \o name \o "!"

\* C7 witness: 'Alice/?greet=Hi' was answered "Hi, Alice!".
C7_Witness ==
    /\ request.view = "hello"
    /\ request.path = <<"Alice">>
    /\ request.GET = << <<"greet", "Hi">> >>
    /\ response.content = "Hi, Alice!"

\* C8: every Book refers to a Publisher that exists (and to Authors that
\* exist); deleting a Publisher deletes exactly its Books and leaves every
\* Author, every other Publisher and every other Book as it was.
C8_CascadeDelete ==
    /\ [](\A b \in DOMAIN books :
              books[b].publisher \in publishers /\ books[b].authors \subseteq authors)
    /\ [][(request'.view = "admin" /\ request'.op = "delete_publisher") =>
            /\ publishers' = publishers \ {request'.pk}
            /\ authors' = authors
            /\ DOMAIN books' = {b \in DOMAIN books : books[b].publisher # request'.pk}
            /\ \A b \in DOMAIN books' : books'[b] = books[b]]_vars

\* C8 witness: a Publisher was deleted; the other Publisher, its Book with
\* its Authors and both Author rows are still there.
C8_Witness ==
    /\ request.view = "admin"
    /\ request.op = "delete_publisher"
    /\ Cardinality(DOMAIN books) = 1
    /\ \E b \in DOMAIN books : books[b].authors # {}
    /\ authors = AuthorIds
    /\ Cardinality(publishers) = 1

\* C9: the listing of the gallery holds every Photo once, newest first by
\* upload timestamp, so the Photo of the most recent successful upload is
\* its first element; a valid POST to upload_photo stores one Photo, an
\* invalid POST and any other method store none.
C9_NewestFirst ==
    /\ [](request.view = "gallery" =>
            LET l == response.context.photos IN
            /\ Len(l) = Len(photos)
            /\ \A i \in 1..Len(photos) : \E j \in 1..Len(l) : l[j] = photos[i]
            /\ \A i, j \in 1..Len(l) : i < j => l[i].uploaded_at > l[j].uploaded_at
            /\ photos # <<>> => l[1] = photos[Len(photos)])
    /\ [][request'.view = "upload_photo" =>
            IF request'.method = "POST" /\ PhotoForm_is_valid(request'.FILES)
            THEN /\ Len(photos') = Len(photos) + 1
                 /\ SubSeq(photos', 1, Len(photos)) = photos
                 /\ photos'[Len(photos')].image = request'.FILES["image"]
                 /\ response'.kind = "redirect"
            ELSE photos' = photos /\ response'.kind = "render"]_vars

\* C9 witness: the gallery was listed with three Photos stored, the last
\* upload first and the first upload last.
C9_Witness ==
    /\ request.view = "gallery"
    /\ Len(photos) = 3
    /\ response.context.photos[1] = photos[3]
    /\ response.context.photos[3] = photos[1]
    /\ photos[1].image # photos[3].image

\* C10: a task created by add_task belongs to the user of the request,
\* whatever the POST says; task_list of user u lists exactly the tasks of u;
\* an invalid POST and any other method create no task.
C10_TasksBelongToRequestUser ==
    /\ []((request.view = "task_list" /\ request.user \in Users) =>
            LET l == response.context.tasks IN
            /\ \A i \in 1..Len(l) : l[i].user = request.user
            /\ Len(l) = Cardinality({i \in 1..Len(todos) : todos[i].user = request.user})
            /\ \A i \in 1..Len(todos) :
                  todos[i].user = request.user => \E j \in 1..Len(l) : l[j] = todos[i])
    /\ [][(request'.view = "add_task" /\ request'.user \in Users) =>
            IF request'.method = "POST" /\ TodoForm_is_valid(request'.POST)
            THEN /\ Len(todos') = Len(todos) + 1
                 /\ SubSeq(todos', 1, Len(todos)) = todos
                 /\ todos'[Len(todos')].user = request'.user
                 /\ todos'[Len(todos')].title = request'.POST["title"]
            ELSE todos' = todos]_vars

\* C10 witness: a POST that names another user created a task of the user
\* of the request, next to a task of the other user.
C10_Witness ==
    /\ request.view = "add_task"
    /\ request.user \in Users
    /\ "user" \in DOMAIN request.POST
    /\ request.POST["user"] # request.user
    /\ response.kind = "redirect"
    /\ Len(todos) = 2
    /\ todos[2].user = request.user
    /\ todos[1].user # request.user

====
